---- MODULE Spec2Model ----
(***************************************************************************)
(* Model of the RCT Power frame codec of rctclient/frame.py: the encoder   *)
(* make_frame / SendFrame and the incremental decoder ReceiveFrame.        *)
(* Bytes are the integers 0..255, byte strings are sequences of bytes.     *)
(* The debug string _dbg of ReceiveFrame is write-only and is left out.    *)
(***************************************************************************)
EXTENDS Integers, Sequences, FiniteSets, TLC

\* ------------------------------------------------------------ constants
\* frame.py, module level
START_TOKEN == 43
ESCAPE_TOKEN == 45
FRAME_LENGTH_HEADER == 1
FRAME_LENGTH_COMMAND == 1
FRAME_LENGTH_LENGTH == 2
FRAME_HEADER_WITH_LENGTH == FRAME_LENGTH_HEADER + FRAME_LENGTH_COMMAND + FRAME_LENGTH_LENGTH
FRAME_LENGTH_CRC16 == 2

\* rctclient/types.py, Command (IntEnum)
READ == 1
WRITE == 2
LONG_WRITE == 3
RESERVED1 == 4
RESPONSE == 5
LONG_RESPONSE == 6
RESERVED2 == 7
READ_PERIODICALLY == 8
EXTENSION == 60
Command_NONE == 255
Command == {READ, WRITE, LONG_WRITE, RESERVED1, RESPONSE, LONG_RESPONSE, RESERVED2,
            READ_PERIODICALLY, EXTENSION, Command_NONE}

\* rctclient/types.py, FrameType (IntEnum).  The value is what make_frame adds
\* to len(payload) to get the length field and what decode subtracts again;
\* consume frames the body by the length field alone, so the value has to be
\* the number of id/address bytes: 4 for STANDARD and 8 for PLANT.
STANDARD == 4
PLANT == 8
FrameType == {STANDARD, PLANT}

\* ------------------------------------------------------------ helpers
Byte == 0..255

Min(a, b) == IF a < b THEN a ELSE b

\* Python's s[a:b] for 0 <= a and 0 <= b
PySlice(s, a, b) == SubSeq(s, a + 1, Min(b, Len(s)))

\* Python's s[-2:] and s[1:-2]
LastTwo(s) == SubSeq(s, Len(s) - 1, Len(s))
\* Mutant: the slice starts at the start token, s[:-2].
StripEnds_WithStart(s) == SubSeq(s, 1, Len(s) - 2)
StripEnds(s) == SubSeq(s, 2, Len(s) - 2)

\* struct.pack('>B' | '>H' | '>I', x): the value has to fit the field, or
\* struct.error is raised.  The integers of the model end at 2^31 - 1, so
\* every modelled value is below the 4-byte limit 2^32 - 1 and only a
\* negative value fails to fit 4 bytes.
PackFits(width, x) ==
    CASE width = 1 -> x \in 0..255
      [] width = 2 -> x \in 0..65535
      [] OTHER     -> x >= 0

PackB(x) == <<x>>
PackH(x) == <<x \div 256, x % 256>>
PackI(x) == <<x \div 16777216, (x \div 65536) % 256, (x \div 256) % 256, x % 256>>

\* struct.unpack('>H' | '>I', s)[0], for s of the right length
UnpackH(s) == s[1] * 256 + s[2]
UnpackI(s) == s[1] * 16777216 + s[2] * 65536 + s[3] * 256 + s[4]

\* ------------------------------------------------------------ CRC16
\* rctclient/utils.py, CRC16: CCITT polynomial 0x1021, start value 0xFFFF,
\* input padded with a zero byte to an even length.
RECURSIVE BitXor(_, _, _)
BitXor(a, b, n) ==
    IF n = 0 THEN 0
    ELSE (((a % 2) + (b % 2)) % 2) + 2 * BitXor(a \div 2, b \div 2, n - 1)

RECURSIVE CrcBits(_, _)
CrcBits(crcsum, n) ==
    IF n = 0 THEN crcsum
    ELSE LET shifted == crcsum * 2
         IN CrcBits(IF shifted >= 65536 THEN BitXor(shifted % 65536, 4129, 16)
                                        ELSE shifted, n - 1)

\* the eight shifts applied to every value of the high byte
CrcTable == [x \in 0..255 |-> CrcBits(x * 256, 8)]

\* one byte of the loop: crcsum ^= byte << 8, then eight shifts.  The shifts
\* act on the bits linearly, so their result is the low byte moved up,
\* xor-ed with the shifts of the high byte alone.
CrcByte(crcsum, byte) ==
    BitXor((crcsum % 256) * 256, CrcTable[BitXor(crcsum \div 256, byte, 8)], 16)

\* the loop over buffer[lo..hi], starting from crcsum.  The range is halved
\* instead of walked byte by byte, which keeps the evaluation shallow for
\* long buffers; the bytes are still folded in from left to right.
RECURSIVE CrcFold(_, _, _, _)
CrcFold(crcsum, buffer, lo, hi) ==
    IF lo > hi THEN crcsum
    ELSE IF lo = hi THEN CrcByte(crcsum, buffer[lo])
    ELSE LET mid == (lo + hi) \div 2
             left == CrcFold(crcsum, buffer, lo, mid)
         IN IF left > 65535 THEN left ELSE CrcFold(left, buffer, mid + 1, hi)

CRC16(data) ==
    LET buffer == IF Len(data) % 2 = 1 THEN Append(data, 0) ELSE data
    IN CrcFold(65535, buffer, 1, Len(buffer))

\* ------------------------------------------------------------ encoder
LongCommands == {LONG_WRITE, LONG_RESPONSE}

\* Mutant: the length field counts the payload only.
LengthValue_PayloadOnly(command, payload, frame_type) == Len(payload)

\* make_frame, lines 54-57: the value written into the length field
LengthValue(command, payload, frame_type) == frame_type + Len(payload)

\* Mutant: the length field is 1 byte wide for every command.
LengthWidth_One(command) == 1

\* make_frame, lines 54-57: the width of the length field
LengthWidth(command) == IF command \in LongCommands THEN 2 ELSE 1

\* make_frame, lines 66-68: the payload bytes put into the buffer
PayloadBytes(command, payload) == IF command # READ THEN payload ELSE <<>>

\* make_frame, lines 50-68: the buffer before the checksum is appended
FrameBody(command, id, payload, address, frame_type) ==
    PackB(command)
    \o (IF LengthWidth(command) = 2
        THEN PackH(LengthValue(command, payload, frame_type))
        ELSE PackB(LengthValue(command, payload, frame_type)))
    \o (IF frame_type = PLANT THEN PackI(address) ELSE <<>>)
    \o PackI(id)
    \o PayloadBytes(command, payload)

\* make_frame, lines 50-72: the buffer with its checksum, before stuffing
PreStuffing(command, id, payload, address, frame_type) ==
    LET buf == FrameBody(command, id, payload, address, frame_type)
    IN buf \o PackH(CRC16(buf))

\* make_frame, lines 78-83: escape tokens injected before START/ESCAPE values,
\* for the bytes buf[lo..hi] (the range is halved, as in CrcFold)
RECURSIVE Escaped(_, _, _)
\* Mutant: only the start token is escaped.
Escaped_StartOnly(buf, lo, hi) ==
    IF lo > hi THEN <<>>
    ELSE IF lo = hi
    THEN (IF buf[lo] = START_TOKEN THEN <<ESCAPE_TOKEN>> ELSE <<>>) \o <<buf[lo]>>
    ELSE LET mid == (lo + hi) \div 2
         IN Escaped(buf, lo, mid) \o Escaped(buf, mid + 1, hi)

Escaped(buf, lo, hi) ==
    IF lo > hi THEN <<>>
    ELSE IF lo = hi
    THEN (IF buf[lo] \in {START_TOKEN, ESCAPE_TOKEN} THEN <<ESCAPE_TOKEN>> ELSE <<>>)
         \o <<buf[lo]>>
    ELSE LET mid == (lo + hi) \div 2
         IN Escaped(buf, lo, mid) \o Escaped(buf, mid + 1, hi)

\* make_frame, lines 74-85
Stuff(buf) == <<START_TOKEN>> \o Escaped(buf, 1, Len(buf))

\* Mutant: the id is packed unchecked.
PackRaises_IdUnchecked(command, id, payload, address, frame_type) ==
    \/ ~PackFits(LengthWidth(command), LengthValue(command, payload, frame_type))
    \/ frame_type = PLANT /\ ~PackFits(4, address)

\* make_frame, the struct.pack calls of lines 51-64: which of them raises
PackRaises(command, id, payload, address, frame_type) ==
    \/ ~PackFits(LengthWidth(command), LengthValue(command, payload, frame_type))
    \/ frame_type = PLANT /\ ~PackFits(4, address)
    \/ ~PackFits(4, id)

\* make_frame: the returned bytes, or the struct.error it raises
make_frame(command, id, payload, address, frame_type) ==
    IF PackRaises(command, id, payload, address, frame_type)
    THEN [raised |-> "struct.error", data |-> <<>>]
    ELSE [raised |-> "none",
          data |-> Stuff(PreStuffing(command, id, payload, address, frame_type))]

\* Mutant: the address argument is kept whatever the frame type is.
SendFrame_AddressKept(command, id, payload, address, frame_type) ==
    LET p == IF command # READ THEN payload ELSE <<>>
        made == make_frame(command, id, p, address, frame_type)
    IN [command |-> command, id |-> id, frame_type |-> frame_type,
        payload |-> p, address |-> address,
        data |-> made.data, raised |-> made.raised]

\* SendFrame.__init__, lines 121-128
SendFrame(command, id, payload, address, frame_type) ==
    LET p == IF command # READ THEN payload ELSE <<>>
        a == IF frame_type = PLANT THEN address ELSE 0
        made == make_frame(command, id, p, a, frame_type)
    IN [command |-> command, id |-> id, frame_type |-> frame_type,
        payload |-> p, address |-> a,
        data |-> made.data, raised |-> made.raised]

\* ------------------------------------------------------------ decoder
NoError == [type |-> "none", received_crc |-> 0, calculated_crc |-> 0,
            consumed_bytes |-> 0]

\* exceptions.py, FrameCRCMismatch(message, received_crc, calculated_crc)
FrameCRCMismatch(received, calculated) ==
    [type |-> "FrameCRCMismatch", received_crc |-> received,
     calculated_crc |-> calculated, consumed_bytes |-> 0]

\* an exception of the Python runtime: ValueError, struct.error
RuntimeError(type) ==
    [type |-> type, received_crc |-> 0, calculated_crc |-> 0, consumed_bytes |-> 0]

\* ReceiveFrame.__init__, lines 213-227
ReceiveFrame(frame_type) ==
    [complete |-> FALSE, crc_ok |-> FALSE, escaping |-> FALSE, crc16 |-> 0,
     frame_length |-> 0, frame_type |-> frame_type, command |-> Command_NONE,
     buffer |-> <<>>, id |-> 0, data |-> <<>>, address |-> 0]

\* ReceiveFrame.decode, lines 364-369: the length field and the index after it
DeclaredLength(buffer, command) ==
    IF command \in LongCommands THEN UnpackH(PySlice(buffer, 2, 4)) ELSE buffer[3]

FieldsIndex(command) == IF command \in LongCommands THEN 4 ELSE 3

\* Mutant: a command byte outside the enumeration is stored as it is.
DecodeFields_AnyCommand(rf) ==
    LET cmd == rf.buffer[2]
        r1 == [rf EXCEPT !.crc_ok = TRUE, !.command = cmd]
        data_length == DeclaredLength(rf.buffer, cmd) - rf.frame_type
        idx0 == FieldsIndex(cmd)
        abytes == PySlice(rf.buffer, idx0, idx0 + 4)
        idx1 == IF rf.frame_type = PLANT THEN idx0 + 4 ELSE idx0
        ibytes == PySlice(rf.buffer, idx1, idx1 + 4)
        idx2 == idx1 + 4
    IN IF (rf.frame_type = PLANT /\ Len(abytes) # 4) \/ Len(ibytes) # 4
       THEN [rf |-> r1, exc |-> RuntimeError("struct.error")]
       ELSE [rf |-> [r1 EXCEPT !.address = IF rf.frame_type = PLANT
                                           THEN UnpackI(abytes) ELSE @,
                               !.id = UnpackI(ibytes),
                               !.data = PySlice(rf.buffer, idx2, idx2 + data_length)],
             exc |-> NoError]

\* ReceiveFrame.decode, lines 362-382: the branch taken when the checksums match
DecodeFields(rf) ==
    LET ok == [rf EXCEPT !.crc_ok = TRUE]
        cmd == rf.buffer[2]
    IN IF cmd \notin Command
       THEN [rf |-> ok, exc |-> RuntimeError("ValueError")]
       ELSE
       LET r1 == [ok EXCEPT !.command = cmd]
           data_length == DeclaredLength(rf.buffer, cmd) - rf.frame_type
           idx0 == FieldsIndex(cmd)
           abytes == PySlice(rf.buffer, idx0, idx0 + 4)
           idx1 == IF rf.frame_type = PLANT THEN idx0 + 4 ELSE idx0
           ibytes == PySlice(rf.buffer, idx1, idx1 + 4)
           idx2 == idx1 + 4
       IN IF rf.frame_type = PLANT /\ Len(abytes) # 4
          THEN [rf |-> r1, exc |-> RuntimeError("struct.error")]
          ELSE
          LET r2 == IF rf.frame_type = PLANT
                    THEN [r1 EXCEPT !.address = UnpackI(abytes)] ELSE r1
          IN IF Len(ibytes) # 4
             THEN [rf |-> r2, exc |-> RuntimeError("struct.error")]
             ELSE [rf |-> [r2 EXCEPT !.id = UnpackI(ibytes),
                                     !.data = PySlice(rf.buffer, idx2, idx2 + data_length)],
                   exc |-> NoError]

\* Mutant: only the low byte of the checksum is compared.
decode_LowByte(rf) ==
    LET received == UnpackH(LastTwo(rf.buffer))
        calculated == CRC16(StripEnds(rf.buffer))
        stored == [rf EXCEPT !.crc16 = received]
    IN IF received % 256 = calculated % 256
       THEN DecodeFields(stored)
       ELSE [rf |-> stored, exc |-> FrameCRCMismatch(received, calculated)]

\* ReceiveFrame.decode, lines 356-384
decode(rf) ==
    LET received == UnpackH(LastTwo(rf.buffer))
        calculated == CRC16(StripEnds(rf.buffer))
        stored == [rf EXCEPT !.crc16 = received]
    IN IF received = calculated
       THEN DecodeFields(stored)
       ELSE [rf |-> stored, exc |-> FrameCRCMismatch(received, calculated)]

\* Mutant: the length field is read as one byte whatever the command is.
HeaderFrameLength_OneByte(buffer) == buffer[3] + 1 + 2

\* Mutant: the 2 bytes of the header are not added.
HeaderFrameLength_NoHeader(buffer) ==
    IF buffer[2] = LONG_RESPONSE \/ buffer[2] = LONG_WRITE
    THEN UnpackH(PySlice(buffer, 2, 4)) + 2
    ELSE buffer[3] + 1

\* ReceiveFrame.consume, lines 324-331: the expected length up to the checksum
HeaderFrameLength(buffer) ==
    LET cmd == buffer[2]
    IN (IF cmd = LONG_RESPONSE \/ cmd = LONG_WRITE
        THEN UnpackH(PySlice(buffer, 2, 4)) + 2
        ELSE buffer[3] + 1) + 2

\* Mutant: the test holds for every byte from the end of the frame on.
BufferFull_AtLeast(rf) == Len(rf.buffer) >= rf.frame_length + FRAME_LENGTH_CRC16

\* ReceiveFrame.consume, lines 336: the test that the buffer holds the frame
BufferFull(rf) == Len(rf.buffer) = rf.frame_length + FRAME_LENGTH_CRC16

\* Mutant: the escape token is looked for before the start token is.
Accumulate_EscapeFirst(rf, c) ==
    IF rf.escaping
    THEN [rf |-> [rf EXCEPT !.escaping = FALSE, !.buffer = Append(@, c)],
          added |-> TRUE]
    ELSE IF c = ESCAPE_TOKEN
    THEN [rf |-> [rf EXCEPT !.escaping = TRUE], added |-> FALSE]
    ELSE IF Len(rf.buffer) = 0
    THEN [rf |-> IF c = START_TOKEN THEN [rf EXCEPT !.buffer = <<c>>] ELSE rf,
          added |-> FALSE]
    ELSE [rf |-> [rf EXCEPT !.buffer = Append(@, c)], added |-> TRUE]

\* Mutant: the escape token that sets the flag goes into the buffer as well.
Accumulate_EscapeKept(rf, c) ==
    IF Len(rf.buffer) = 0
    THEN [rf |-> IF c = START_TOKEN THEN [rf EXCEPT !.buffer = <<c>>] ELSE rf,
          added |-> FALSE]
    ELSE IF rf.escaping
    THEN [rf |-> [rf EXCEPT !.escaping = FALSE, !.buffer = Append(@, c)],
          added |-> TRUE]
    ELSE IF c = ESCAPE_TOKEN
    THEN [rf |-> [rf EXCEPT !.escaping = TRUE, !.buffer = Append(@, c)],
          added |-> TRUE]
    ELSE [rf |-> [rf EXCEPT !.buffer = Append(@, c)], added |-> TRUE]

\* ReceiveFrame.consume, lines 298-317: what one byte does to the buffer and
\* the escape flag; added tells whether the byte went on to line 316
Accumulate(rf, c) ==
    IF Len(rf.buffer) = 0
    THEN [rf |-> IF c = START_TOKEN THEN [rf EXCEPT !.buffer = <<c>>] ELSE rf,
          added |-> FALSE]
    ELSE IF rf.escaping
    THEN [rf |-> [rf EXCEPT !.escaping = FALSE, !.buffer = Append(@, c)],
          added |-> TRUE]
    ELSE IF c = ESCAPE_TOKEN
    THEN [rf |-> [rf EXCEPT !.escaping = TRUE], added |-> FALSE]
    ELSE [rf |-> [rf EXCEPT !.buffer = Append(@, c)], added |-> TRUE]

\* Mutant: the loop goes on after the frame is complete (no return).
Complete_NoReturn(rf, i) ==
    LET d == decode([rf EXCEPT !.complete = TRUE])
    IN [rf |-> d.rf, ret |-> i, done |-> d.exc.type # "none",
        exc |-> IF d.exc.type = "FrameCRCMismatch"
                THEN [d.exc EXCEPT !.consumed_bytes = i] ELSE d.exc]

\* Mutant: the exception leaves without its consumed_bytes.
Complete_NoCount(rf, i) ==
    LET d == decode([rf EXCEPT !.complete = TRUE])
    IN [rf |-> d.rf, ret |-> i, done |-> TRUE, exc |-> d.exc]

\* ReceiveFrame.consume, lines 338-345: completion.  A FrameCRCMismatch
\* leaves with consumed_bytes set to the loop counter.
Complete(rf, i) ==
    LET d == decode([rf EXCEPT !.complete = TRUE])
    IN [rf |-> d.rf, ret |-> i, done |-> TRUE,
        exc |-> IF d.exc.type = "FrameCRCMismatch"
                THEN [d.exc EXCEPT !.consumed_bytes = i] ELSE d.exc]

\* ReceiveFrame.consume, lines 293-346: the loop body for the byte data[i],
\* with i already counted; done tells that consume returned or raised
ConsumeByte(rf, c, i) ==
    LET a == Accumulate(rf, c)
    IN IF ~a.added \/ Len(a.rf.buffer) < FRAME_HEADER_WITH_LENGTH
       THEN [rf |-> a.rf, ret |-> i, done |-> FALSE, exc |-> NoError]
       ELSE IF Len(a.rf.buffer) = FRAME_HEADER_WITH_LENGTH
       THEN [rf |-> [a.rf EXCEPT !.frame_length = HeaderFrameLength(a.rf.buffer)],
             ret |-> i, done |-> FALSE, exc |-> NoError]
       ELSE IF BufferFull(a.rf)
       THEN Complete(a.rf, i)
       ELSE [rf |-> a.rf, ret |-> i, done |-> FALSE, exc |-> NoError]

\* ReceiveFrame.consume, lines 292-346: the for loop over data[lo..hi], from
\* the result st of the bytes before lo; it ends at the byte that completes
\* the frame (the range is halved, as in CrcFold)
RECURSIVE ConsumeLoop(_, _, _, _)
ConsumeLoop(st, data, lo, hi) ==
    IF st.done \/ lo > hi THEN st
    ELSE IF lo = hi THEN ConsumeByte(st.rf, data[lo], lo)
    ELSE LET mid == (lo + hi) \div 2
             left == ConsumeLoop(st, data, lo, mid)
         IN IF left.done THEN left ELSE ConsumeLoop(left, data, mid + 1, hi)

\* Mutant: the escape flag is a local of the call and does not outlive it.
consume_EscapeLost(rf, data) ==
    ConsumeLoop([rf |-> [rf EXCEPT !.escaping = FALSE], ret |-> 0, done |-> FALSE,
                 exc |-> NoError], data, 1, Len(data))

\* ReceiveFrame.consume: the state after the call, the value returned (the
\* count of bytes iterated, also when it raises) and the exception raised
consume(rf, data) ==
    ConsumeLoop([rf |-> rf, ret |-> 0, done |-> FALSE, exc |-> NoError],
                data, 1, Len(data))

\* Mutant: the buffer is an attribute of the class, shared by the instances.
ConsumeOn_ClassBuffer(insts, k, data) ==
    LET r == consume(insts[k], data)
    IN [insts |-> [j \in DOMAIN insts |->
                      IF j = k THEN r.rf ELSE [insts[j] EXCEPT !.buffer = r.rf.buffer]],
        ret |-> r.ret, done |-> r.done, exc |-> r.exc]

\* ReceiveFrame.consume called on instance k of the live instances: every
\* assignment of lines 299-345 and 357-381 is to an attribute of self, and
\* __init__ (lines 214-227) binds each of them to an object of its own
ConsumeOn(insts, k, data) ==
    LET r == consume(insts[k], data)
    IN [insts |-> [insts EXCEPT ![k] = r.rf],
        ret |-> r.ret, done |-> r.done, exc |-> r.exc]

\* ReceiveFrame.consume, lines 340-346: the count reaches the caller as the
\* return value or as the consumed_bytes of a FrameCRCMismatch; any other
\* exception of decode leaves without a count (-1)
Counted(r) == IF r.exc.type \in {"none", "FrameCRCMismatch"} THEN r.ret ELSE -1

\* ReceiveFrame.complete and is_complete, lines 276-281 and 386-390
complete(rf) == rf.complete
is_complete(rf) == rf.complete /\ rf.crc_ok

\* The accessors id, data, address (lines 236-267) and command (269-274):
\* the value returned, or the FrameNotComplete raised (with a void value)
Returns(value) == [raises |-> "none", value |-> value]
Raises(type, void) == [raises |-> type, value |-> void]

\* Mutant: the accessor asks for a fully valid frame.
id_of_Valid(rf) ==
    IF ~(rf.complete /\ rf.crc_ok) THEN Raises("FrameNotComplete", 0) ELSE Returns(rf.id)

id_of(rf) == IF ~rf.complete THEN Raises("FrameNotComplete", 0) ELSE Returns(rf.id)
data_of(rf) == IF ~rf.complete THEN Raises("FrameNotComplete", <<>>) ELSE Returns(rf.data)
address_of(rf) ==
    IF ~rf.complete THEN Raises("FrameNotComplete", 0) ELSE Returns(rf.address)
command_of(rf) == rf.command

\* ------------------------------------------------------------ bounds
\* the longest chunk a caller hands to consume, besides "all that is left"
MaxChunk == 2
\* the number of ReceiveFrame instances a caller goes through
MaxInst == 2

\* ------------------------------------------------------------ state
VARIABLES
    env,       \* what the caller and the transport do: the arguments of the
               \* encoder, the entry point used, the noise before the frame,
               \* the bit flipped in transit, whether a second frame follows
    pc,        \* "new" before the frame is encoded, "recv" afterwards
    sent,      \* the encoder's result: SendFrame's attributes or make_frame's bytes
    wire,      \* the bytes the transport delivers
    pos,       \* how many of them the caller has handed over and got counted
    rf,        \* the current ReceiveFrame instance
    inst,      \* its number
    startpos,  \* pos when it was created
    over,      \* consume was called on it after it was complete
    chunk,     \* the argument of the last consume call
    ret,       \* the count of that call (-1: none yet)
    exc,       \* the exception of that call
    whole,     \* a ReceiveFrame that was given the whole wire in one call
    split,     \* a call on rf ended between an escape token and the byte it escapes
    decodes,   \* how many times decode was invoked on rf
    peer       \* the ReceiveFrame instance of a second connection, with the
               \* position in its own stream and its last call

vars == <<env, pc, sent, wire, pos, rf, inst, startpos, over, chunk, ret, exc, whole,
          split, decodes, peer>>

\* ids, payloads and addresses with START_TOKEN and ESCAPE_TOKEN bytes in them
IdTokens == 43 * 16777216 + 45 * 65536 + 43
AddressTokens == 45 * 256 + 7
SendCommands == Command \ {Command_NONE}

\* the second frame of a stream, of the frame type of the connection
SecondFrame(frame_type) == SendFrame(RESPONSE, 43, <<45>>, 7, frame_type)

\* bit b (0 = least significant) of byte k of buf inverted
FlipBit(buf, k, b) ==
    LET p == IF b = 0 THEN 1 ELSE IF b = 1 THEN 2 ELSE IF b = 2 THEN 4
             ELSE IF b = 3 THEN 8 ELSE IF b = 4 THEN 16 ELSE IF b = 5 THEN 32
             ELSE IF b = 6 THEN 64 ELSE 128
    IN [buf EXCEPT ![k] = IF (@ \div p) % 2 = 1 THEN @ - p ELSE @ + p]

\* flip = 0: nothing flipped; flip = 8 * (k - 1) + b + 1: bit b of byte k
Corrupt(buf, flip) ==
    IF flip = 0 THEN buf ELSE FlipBit(buf, (flip - 1) \div 8 + 1, (flip - 1) % 8)

Env(command, id, payload, address, frame_type, via, noise, flip, tail) ==
    [command |-> command, id |-> id, payload |-> payload, address |-> address,
     frame_type |-> frame_type, via |-> via, noise |-> noise, flip |-> flip,
     tail |-> tail]

NoFrame == [command |-> Command_NONE, id |-> 0, frame_type |-> STANDARD,
            payload |-> <<>>, address |-> 0, data |-> <<>>, raised |-> "none"]

\* the stream of the second connection, and its instance before the first call
PeerWires == [t \in FrameType |-> SendFrame(WRITE, 43, <<45>>, 7, t).data]
PeerWire(frame_type) == PeerWires[frame_type]
PeerInit(frame_type) ==
    [rf |-> ReceiveFrame(frame_type), pos |-> 0, chunk |-> <<>>, ret |-> -1,
     exc |-> NoError]

InitRest ==
    /\ pc = "new"
    /\ sent = NoFrame
    /\ wire = <<>>
    /\ pos = 0
    /\ rf = ReceiveFrame(env.frame_type)
    /\ inst = 1
    /\ startpos = 0
    /\ over = FALSE
    /\ chunk = <<>>
    /\ ret = -1
    /\ exc = NoError
    /\ whole = consume(ReceiveFrame(env.frame_type), <<>>)
    /\ split = FALSE
    /\ decodes = 0
    /\ peer = PeerInit(env.frame_type)

\* Frames built by SendFrame, delivered intact, after noise without a start
\* token, alone or followed by a second frame.
Init ==
    /\ env \in {Env(c, IdTokens, <<43, 170, 45>>, AddressTokens, t, "SendFrame",
                    <<>>, 0, FALSE) : c \in SendCommands, t \in FrameType}
           \cup {Env(c, 16, p, AddressTokens, t, "SendFrame", nt[1], 0, nt[2]) :
                    c \in {READ, WRITE, LONG_RESPONSE}, p \in {<<>>, <<45>>},
                    t \in FrameType,
                    nt \in {<<<<>>, FALSE>>, <<<<45, 0>>, FALSE>>, <<<<>>, TRUE>>,
                            <<<<0, 45>>, TRUE>>}}
    /\ InitRest

\* The encoder's result for the caller's arguments: SendFrame keeps the
\* effective arguments, make_frame only returns the bytes.  Bytes of a device
\* ("raw") reach the transport as they are, in place of a payload.
Encoded(e) ==
    IF e.via = "SendFrame"
    THEN SendFrame(e.command, e.id, e.payload, e.address, e.frame_type)
    ELSE IF e.via = "raw"
    THEN [command |-> e.command, id |-> e.id, frame_type |-> e.frame_type,
          payload |-> e.payload, address |-> e.address,
          data |-> e.payload, raised |-> "none"]
    ELSE LET made == make_frame(e.command, e.id, e.payload, e.address, e.frame_type)
         IN [command |-> e.command, id |-> e.id, frame_type |-> e.frame_type,
             payload |-> e.payload, address |-> e.address,
             data |-> made.data, raised |-> made.raised]

\* The bytes on the transport: the noise, the frame (with one bit of its
\* pre-stuffing buffer inverted when env.flip says so), the second frame.
Transported(e, frame) ==
    e.noise
    \o (IF e.flip = 0 THEN frame.data
        ELSE Stuff(Corrupt(PreStuffing(frame.command, frame.id, frame.payload,
                                       frame.address, frame.frame_type), e.flip)))
    \o (IF e.tail THEN SecondFrame(e.frame_type).data ELSE <<>>)

\* The caller encodes the frame and the transport takes it.
Send ==
    /\ pc = "new"
    /\ pc' = "recv"
    /\ sent' = Encoded(env)
    /\ wire' = IF sent'.raised = "none" THEN Transported(env, sent') ELSE <<>>
    /\ whole' = consume(ReceiveFrame(env.frame_type), wire')
    /\ UNCHANGED <<env, pos, rf, inst, startpos, over, chunk, ret, exc, split, decodes,
                   peer>>

\* The caller hands the next n bytes of the wire to consume and moves on by
\* the count it gets (the consumed_bytes of a FrameCRCMismatch).
ConsumeChunk(n) ==
    /\ pc = "recv"
    /\ pos + n <= Len(wire)
    /\ chunk' = SubSeq(wire, pos + 1, pos + n)
    /\ \E r \in {ConsumeOn(<<rf, peer.rf>>, 1, chunk')} :
          /\ rf' = r.insts[1]
          /\ peer' = [peer EXCEPT !.rf = r.insts[2]]
          /\ ret' = Counted(r)
          /\ exc' = r.exc
          /\ pos' = pos + r.ret
          /\ split' = (split \/ r.insts[1].escaping)
          /\ decodes' = decodes + (IF r.done THEN 1 ELSE 0)
    /\ over' = (over \/ rf.complete)
    /\ UNCHANGED <<env, pc, sent, wire, inst, startpos, whole>>

Consume == \E n \in (0..MaxChunk) \cup {Len(wire) - pos} : ConsumeChunk(n)

\* The caller replaces a complete instance by a fresh one (complete()'s
\* docstring) to go on with the rest of the stream.
NewFrame ==
    /\ pc = "recv"
    /\ rf.complete
    /\ inst < MaxInst
    /\ rf' = ReceiveFrame(rf.frame_type)
    /\ inst' = inst + 1
    /\ startpos' = pos
    /\ over' = FALSE
    /\ chunk' = <<>>
    /\ ret' = -1
    /\ exc' = NoError
    /\ split' = FALSE
    /\ decodes' = 0
    /\ UNCHANGED <<env, pc, sent, wire, pos, whole, peer>>

Next == Send \/ Consume \/ NewFrame

Spec == Init /\ [][Next]_vars

\* Frames built by SendFrame with one bit of the pre-stuffing buffer (the
\* command byte up to the checksum) inverted in transit.
PreStuffingOf(frame) ==
    PreStuffing(frame.command, frame.id, frame.payload, frame.address, frame.frame_type)

InitFlip ==
    /\ env \in UNION {{Env(ct[1], 16, <<187>>, AddressTokens, ct[2], "SendFrame", <<>>,
                           f, FALSE) :
                         f \in 1..(8 * Len(PreStuffingOf(
                                  SendFrame(ct[1], 16, <<187>>, AddressTokens, ct[2]))))} :
                      ct \in ({READ, WRITE, LONG_WRITE, RESERVED2} \X {STANDARD})
                             \cup {<<WRITE, PLANT>>}}
    /\ InitRest

SpecFlip == InitFlip /\ [][Next]_vars

\* make_frame called directly, with arguments of every kind: a payload for
\* a READ, a negative id or address, a payload too long for the length field.
Zeros(n) == [k \in 1..n |-> 0]

InitMake ==
    /\ env \in {Env(c, i, p, a, t, "make_frame", <<>>, 0, FALSE) :
                   c \in {READ, WRITE, LONG_WRITE, EXTENSION}, i \in {-1, 16, IdTokens},
                   p \in {<<>>, <<45, 1>>}, a \in {-1, AddressTokens}, t \in FrameType}
           \cup {Env(cn[1], 16, Zeros(cn[2]), 0, STANDARD, "make_frame", <<>>, 0, FALSE) :
                   cn \in {<<WRITE, 251>>, <<WRITE, 252>>, <<READ, 252>>,
                           <<LONG_WRITE, 252>>}}
    /\ InitRest

SpecMake == InitMake /\ [][Next]_vars

\* Bytes a device sends, in the framing ReceiveFrame.consume reads: the start
\* token, then stuffed the command byte, the length of the fields that
\* follow in 1 byte (2 for the long commands), the fields and the checksum
\* (off by crcoff).  The command byte need not be a Command, and the fields
\* need not hold the 4 or 8 bytes of the id and address.
RawFrame(cmd, fields, crcoff) ==
    LET body == PackB(cmd)
                \o (IF cmd \in LongCommands THEN PackH(Len(fields))
                    ELSE PackB(Len(fields)))
                \o fields
    IN Stuff(body \o PackH((CRC16(body) + crcoff) % 65536))

RawFields == <<0, 0, 0, 16, 43, 45, 1, 2, 3>>
RawCommands == {9, Command_NONE, WRITE, LONG_RESPONSE}
RawLengths == {0, 2, 4, 6, 8, 9}

InitRaw ==
    /\ env \in {Env(c, 0, RawFrame(c, SubSeq(RawFields, 1, n), x), 0, t, "raw",
                    nt[1], 0, nt[2]) :
                   c \in RawCommands, n \in RawLengths, x \in {0, 1}, t \in FrameType,
                   nt \in {<<<<>>, FALSE>>, <<<<45, 0>>, TRUE>>}}
           \cup {Env(c, 16, <<45>>, AddressTokens, t, "SendFrame", <<>>, 0, FALSE) :
                   c \in {READ, WRITE}, t \in FrameType}
    /\ InitRest

SpecRaw == InitRaw /\ [][Next]_vars

\* The caller of the second connection hands the next n bytes of its stream
\* to its own instance, between the calls of the first.
ConsumePeerChunk(n) ==
    /\ pc = "recv"
    /\ peer.pos + n <= Len(PeerWire(env.frame_type))
    /\ \E c \in {SubSeq(PeerWire(env.frame_type), peer.pos + 1, peer.pos + n)} :
       \E r \in {ConsumeOn(<<rf, peer.rf>>, 2, c)} :
          /\ rf' = r.insts[1]
          /\ peer' = [rf |-> r.insts[2], pos |-> peer.pos + r.ret, chunk |-> c,
                      ret |-> Counted(r), exc |-> r.exc]
    /\ UNCHANGED <<env, pc, sent, wire, pos, inst, startpos, over, chunk, ret, exc,
                   whole, split, decodes>>

ConsumePeer ==
    \E n \in (0..MaxChunk) \cup {Len(PeerWire(env.frame_type)) - peer.pos} :
        ConsumePeerChunk(n)

NextTwo == Send \/ Consume \/ NewFrame \/ ConsumePeer

\* Two connections, each with its stream and its instance.
InitTwo ==
    /\ env \in {Env(c, 16, <<45>>, AddressTokens, t, "SendFrame", <<>>, 0, FALSE) :
                   c \in {READ, LONG_RESPONSE}, t \in FrameType}
    /\ InitRest

SpecTwo == InitTwo /\ [][NextTwo]_vars

\* ------------------------------------------------------------ claims
\* What the caller means: no payload for a READ, no address unless PLANT.
EffectivePayload(e) == IF e.command = READ THEN <<>> ELSE e.payload
EffectiveAddress(e) == IF e.frame_type = PLANT THEN e.address ELSE 0

\* the end of the first frame on the wire
FirstEnd == Len(env.noise) + Len(sent.data)

\* the first instance, never called after it was complete
FirstRun == pc = "recv" /\ inst = 1 /\ ~over

C2_ChunkingInvariance ==
    (FirstRun /\ (rf.complete \/ pos = Len(wire))) =>
        /\ rf = whole.rf
        /\ pos = whole.ret

C2_Witness ==
    /\ FirstRun /\ split /\ rf.complete /\ pos = whole.ret
    /\ Len(chunk) = 1
    /\ is_complete(rf) /\ rf = whole.rf

\* C4: Escape correctness.  The encoder's output starts with the start
\* token; byte k of the pre-stuffing buffer (checksum included) is found
\* unmodified at k plus the number of token-valued bytes up to it, directly
\* after one escape token when it is token-valued, and nothing else is in
\* the output; the decoder's buffer after consuming it is the start token
\* followed by the pre-stuffing buffer.
TokenCount(buf, k) ==
    Cardinality({j \in 1..k : buf[j] \in {START_TOKEN, ESCAPE_TOKEN}})

ConsumeStep == pc = "recv" /\ pc' = "recv" /\ inst' = inst

C5_Step ==
    ConsumeStep =>
        /\ ret' \in 0..Len(chunk')
        /\ pos' = pos + ret'
        /\ rf' = consume(rf, SubSeq(chunk', 1, ret')).rf
        /\ IF rf'.complete /\ ~rf.complete
           THEN /\ ret' >= 1
                /\ ~consume(rf, SubSeq(chunk', 1, ret' - 1)).rf.complete
           ELSE ret' = Len(chunk')

C5_TwoFrames ==
    /\ (pc = "recv" /\ env.tail) => whole.ret = FirstEnd
    /\ (FirstRun /\ rf.complete) => pos = FirstEnd
    /\ (pc = "recv" /\ inst = 2 /\ ~over /\ env.tail /\ startpos = FirstEnd
        /\ pos = Len(wire)) =>
           /\ is_complete(rf)
           /\ command_of(rf) = RESPONSE
           /\ id_of(rf) = Returns(43)
           /\ data_of(rf) = Returns(<<45>>)
           /\ address_of(rf) = Returns(EffectiveAddress([env EXCEPT !.address = 7]))

FlipByte == (env.flip - 1) \div 8 + 1
FlipMovesEnd ==
    \/ FlipByte \in 2..(1 + LengthWidth(sent.command))
    \/ /\ FlipByte = 1
       /\ (Corrupt(PreStuffingOf(sent), env.flip)[1] \in LongCommands)
             # (sent.command \in LongCommands)

C8_ChecksumFailed ==
    /\ (pc = "recv" /\ rf.complete /\ ~rf.crc_ok) =>
          /\ complete(rf) /\ ~is_complete(rf)
          /\ id_of(rf) = Returns(0)
          /\ address_of(rf) = Returns(0)
          /\ data_of(rf) = Returns(<<>>)
          /\ command_of(rf) = Command_NONE
          /\ ~over => exc.type = "FrameCRCMismatch"
    /\ (pc = "recv" /\ exc.type = "FrameCRCMismatch") =>
          /\ rf.complete /\ ~rf.crc_ok
          /\ ret \in 1..Len(chunk)
          /\ exc.consumed_bytes = ret
          /\ rf.buffer[Len(rf.buffer)] = chunk[ret]
          /\ exc.received_crc
                = rf.buffer[Len(rf.buffer) - 1] * 256 + rf.buffer[Len(rf.buffer)]
          /\ exc.calculated_crc = CRC16(SubSeq(rf.buffer, 2, Len(rf.buffer) - 2))
          /\ exc.received_crc # exc.calculated_crc

C8_Witness ==
    /\ pc = "recv" /\ exc.type = "FrameCRCMismatch"
    /\ exc.consumed_bytes = 2 /\ Len(chunk) = 2
    /\ rf.complete /\ ~rf.crc_ok
    /\ data_of(rf) = Returns(<<>>) /\ command_of(rf) = Command_NONE

\* C9: Access before ready.  An instance that is not marked complete is
\* seeking the start token, accumulating the header or accumulating the
\* body, and id, address and data raise FrameNotComplete; on an instance
\* that is marked complete, with or without a matching checksum, none of
\* them raises.
Seeking(r) == Len(r.buffer) = 0
InHeader(r) == Len(r.buffer) \in 1..(FRAME_HEADER_WITH_LENGTH - 1)
InBody(r) ==
    /\ Len(r.buffer) >= FRAME_HEADER_WITH_LENGTH
    /\ Len(r.buffer) < r.frame_length + FRAME_LENGTH_CRC16

C9_AccessBeforeReady ==
    pc = "recv" =>
        IF complete(rf)
        THEN /\ id_of(rf).raises = "none"
             /\ address_of(rf).raises = "none"
             /\ data_of(rf).raises = "none"
             /\ ~(Seeking(rf) \/ InHeader(rf) \/ InBody(rf))
        ELSE /\ id_of(rf).raises = "FrameNotComplete"
             /\ address_of(rf).raises = "FrameNotComplete"
             /\ data_of(rf).raises = "FrameNotComplete"
             /\ Seeking(rf) \/ InHeader(rf) \/ InBody(rf)

C9_Witness ==
    /\ pc = "recv" /\ ~complete(rf) /\ InBody(rf) /\ pos = Len(wire)
    /\ id_of(rf).raises = "FrameNotComplete"

\* C3: Read-request payload erasure.  As claimed: the bytes make_frame
\* returns for a READ with a payload carry the length of the empty payload,
\* and a fresh instance that gets them is fully valid with no data.
C3_ReadErasure ==
    (pc = "recv" /\ env.via = "make_frame" /\ env.command = READ
     /\ env.payload # <<>> /\ sent.raised = "none") =>
        /\ whole.rf.buffer[3] = env.frame_type
        /\ is_complete(whole.rf)
        /\ data_of(whole.rf) = Returns(<<>>)

Encodable(e) ==
    /\ e.id >= 0
    /\ e.frame_type = PLANT => e.address >= 0
    /\ e.frame_type + Len(e.payload)
          <= (IF e.command \in {LONG_WRITE, LONG_RESPONSE} THEN 65535 ELSE 255)

WireLength == DeclaredLength(whole.rf.buffer, whole.rf.buffer[2])

\* the number of address bytes of a frame
AddressBytes(frame_type) == IF frame_type = PLANT THEN 4 ELSE 0

C12_UnknownCommand ==
    /\ (pc = "recv" /\ ~over /\ rf.complete /\ rf.crc_ok /\ rf.buffer[2] \notin Command) =>
          /\ exc.type = "ValueError"
          /\ ret = -1
    /\ (pc = "recv" /\ whole.rf.complete /\ whole.rf.crc_ok
        /\ whole.rf.buffer[2] \notin Command) =>
          whole.exc.type = "ValueError"
    /\ (pc = "recv" /\ exc.type = "ValueError") =>
          /\ rf.complete /\ rf.crc_ok /\ rf.buffer[2] \notin Command

C12_Witness ==
    /\ pc = "recv" /\ exc.type = "ValueError" /\ ret = -1
    /\ rf.buffer[2] = 9 /\ Len(rf.buffer) = 9 /\ Len(chunk) = 2
    /\ rf.complete /\ rf.crc_ok

\* C13: Single terminal transition.  Whatever calls an instance gets, also
\* after it is complete, decode is invoked on it at most once, namely by the
\* call that marks it complete; a complete instance stays complete, and no
\* later call changes complete(), is_complete(), command, id, address or
\* data.
C13_Once ==
    pc = "recv" =>
        /\ decodes \in {0, 1}
        /\ complete(rf) <=> decodes = 1

C13_Step ==
    (ConsumeStep /\ complete(rf)) =>
        /\ decodes' = decodes
        /\ complete(rf') /\ is_complete(rf') = is_complete(rf)
        /\ command_of(rf') = command_of(rf)
        /\ id_of(rf') = id_of(rf)
        /\ address_of(rf') = address_of(rf)
        /\ data_of(rf') = data_of(rf)

C13_SingleTerminal == [][C13_Step]_vars /\ []C13_Once

C13_Witness ==
    /\ pc = "recv" /\ over /\ pos = Len(wire) /\ env.tail
    /\ Len(rf.buffer) > rf.frame_length + FRAME_LENGTH_CRC16 + 4
    /\ complete(rf) /\ ~is_complete(rf) /\ decodes = 1

\* C14: Instance independence.  With the calls on two instances interleaved
\* in any way, a call on one instance returns (or raises) what it does on
\* that instance alone and leaves it in the same state, and leaves the other
\* instance and its caller's last result untouched; so at the end of its
\* stream each instance is what it is when its stream is consumed alone.
C14_Step ==
    (pc = "recv" /\ pc' = "recv") =>
        IF peer' # peer
        THEN /\ rf' = rf /\ ret' = ret /\ exc' = exc
             /\ \A alone \in {consume(peer.rf, peer'.chunk)} :
                   /\ peer'.rf = alone.rf
                   /\ peer'.ret = Counted(alone)
                   /\ peer'.exc = alone.exc
        ELSE inst' = inst =>
                \A alone \in {consume(rf, chunk')} :
                   /\ rf' = alone.rf
                   /\ ret' = Counted(alone)
                   /\ exc' = alone.exc

PeerAlone == [t \in FrameType |-> consume(ReceiveFrame(t), PeerWire(t)).rf]

C14_Alone ==
    /\ (FirstRun /\ pos = Len(wire)) => rf = whole.rf
    /\ (pc = "recv" /\ peer.pos = Len(PeerWire(env.frame_type))) =>
          /\ peer.rf = PeerAlone[env.frame_type]
          /\ is_complete(peer.rf)
          /\ id_of(peer.rf) = Returns(43)
          /\ data_of(peer.rf) = Returns(<<45>>)

C15_TargetOf(buffer) ==
    IF buffer[2] \in {LONG_WRITE, LONG_RESPONSE}
    THEN (buffer[3] * 256 + buffer[4]) + 2 + 2
    ELSE buffer[3] + 1 + 2

C15_Target ==
    pc = "recv" =>
        IF Len(rf.buffer) < 4
        THEN rf.frame_length = 0 /\ ~complete(rf)
        ELSE /\ rf.frame_length = C15_TargetOf(rf.buffer)
             /\ complete(rf) <=> Len(rf.buffer) >= rf.frame_length + 2

C15_Step ==
    ConsumeStep =>
        /\ Len(rf.buffer) >= 4 => rf'.frame_length = rf.frame_length
        /\ (~complete(rf) /\ complete(rf')) =>
               /\ Len(rf'.buffer) = rf'.frame_length + 2
               /\ rf'.buffer[Len(rf'.buffer)] = chunk'[pos' - pos]

C15_HeaderLength == [][C15_Step]_vars /\ []C15_Target

C15_Witness ==
    /\ pc = "recv" /\ ~over /\ complete(rf)
    /\ rf.buffer[2] = LONG_RESPONSE /\ rf.buffer[4] = 9
    /\ rf.frame_length = 13 /\ Len(rf.buffer) = 15
    /\ Len(chunk) = 1

\* C16: Address is zero unless plant.  The address attribute of a SendFrame
\* that is not PLANT is 0 whatever the address argument was; the encoder
\* puts the 4 bytes of the id directly after the length field of such a
\* frame, and the payload after them; and a ReceiveFrame of the STANDARD
\* frame type that is complete returns address 0, whatever bytes it got.
C16_AddressZero ==
    /\ (pc = "recv" /\ env.via = "SendFrame" /\ env.frame_type # PLANT) =>
          /\ sent.address = 0
          /\ LET w == LengthWidth(env.command)
                 b == whole.rf.buffer
             IN /\ SubSeq(b, 2 + w + 1, 2 + w + 4) = PackI(env.id)
                /\ SubSeq(b, 2 + w + 5, Len(b) - 2) = EffectivePayload(env)
    /\ (pc = "recv" /\ env.via = "SendFrame" /\ env.frame_type = PLANT) =>
          sent.address = env.address
    /\ (pc = "recv" /\ rf.frame_type = STANDARD /\ complete(rf)) =>
          address_of(rf) = Returns(0)
    /\ (pc = "recv" /\ whole.rf.frame_type = STANDARD /\ complete(whole.rf)) =>
          address_of(whole.rf) = Returns(0)

C16_Witness ==
    /\ pc = "recv" /\ env.via = "raw" /\ rf.frame_type = STANDARD
    /\ is_complete(rf) /\ Len(rf.buffer) = 13
    /\ id_of(rf) = Returns(16) /\ address_of(rf) = Returns(0)
    /\ data_of(rf) = Returns(<<43, 45, 1, 2>>)

C18_ValidImpliesDecoded ==
    (pc = "recv" /\ is_complete(rf)) =>
        LET b == rf.buffer
            w == IF b[2] \in {LONG_WRITE, LONG_RESPONSE} THEN 2 ELSE 1
            declared == IF w = 2 THEN b[3] * 256 + b[4] ELSE b[3]
            a == IF rf.frame_type = PLANT THEN 4 ELSE 0
            value(lo) == b[lo] * 16777216 + b[lo + 1] * 65536 + b[lo + 2] * 256
                         + b[lo + 3]
        IN /\ command_of(rf) \in Command \ {Command_NONE}
           /\ command_of(rf) = b[2]
           /\ declared - rf.frame_type >= 0
           /\ id_of(rf) = Returns(value(3 + w + a))
           /\ address_of(rf) = Returns(IF a = 4 THEN value(3 + w) ELSE 0)
           /\ data_of(rf) = Returns(SubSeq(b, 3 + w + a + 4, 2 + w + declared))

C20_Buffer ==
    pc = "recv" =>
        /\ Len(rf.buffer) > 0 => rf.buffer[1] = START_TOKEN
        /\ Len(rf.buffer) = 0 => ~rf.escaping

C20_Step ==
    ConsumeStep =>
        /\ Len(rf'.buffer) >= Len(rf.buffer)
        /\ Len(rf'.buffer) - Len(rf.buffer) <= pos' - pos
        /\ SubSeq(rf'.buffer, 1, Len(rf.buffer)) = rf.buffer
        /\ pos' - pos = 1 =>
              LET c == chunk'[1]
              IN IF Len(rf.buffer) = 0
                 THEN /\ ~rf'.escaping
                      /\ rf'.buffer = IF c = START_TOKEN THEN <<c>> ELSE <<>>
                 ELSE IF rf.escaping
                 THEN ~rf'.escaping /\ rf'.buffer = Append(rf.buffer, c)
                 ELSE IF c = ESCAPE_TOKEN
                 THEN rf'.escaping /\ rf'.buffer = rf.buffer
                 ELSE ~rf'.escaping /\ rf'.buffer = Append(rf.buffer, c)

C20_BufferAndEscape == [][C20_Step]_vars /\ []C20_Buffer

C20_Witness ==
    /\ pc = "recv" /\ env.via = "raw" /\ env.noise = <<45, 0>>
    /\ rf.escaping /\ chunk = <<ESCAPE_TOKEN>> /\ ret = 1
    /\ Len(rf.buffer) >= 4 /\ rf.buffer[1] = START_TOKEN
    /\ rf.buffer[Len(rf.buffer)] # ESCAPE_TOKEN
    /\ ~complete(rf)

====
